---- MODULE Spec2Model ----
(***************************************************************************)
(* UniChess: the engine wrappers (src/app/lib/stockfish.ts, lines 10-173   *)
(* the library wrapper, lines 211-307 the page's wrapper), the page        *)
(* component ChessApp (lines 387-603) and the pure helpers between them.   *)
(*                                                                         *)
(* Three state machines share the module:                                  *)
(*   EvalSpec  the static evaluators applied to FEN texts,                 *)
(*   LibSpec   the library wrapper StockfishEngine and its worker,         *)
(*   Spec      ChessApp with the page's StockfishEngine, timers, effects.  *)
(* Strings the program indexes or scans are sequences of one-character     *)
(* strings.  Scores are in hundredths of a pawn (3.25 is 325).             *)
(***************************************************************************)
EXTENDS Integers, Sequences, FiniteSets, TLC

VARIABLES
  \* ---- EvalSpec: one evaluation of one FEN text
  evalFen,        \* the FEN handed to the evaluators
  fbScore,        \* result of StockfishEngine.fallbackEval, or Null
  seScore,        \* result of simpleEval, or Null
  \* ---- Spec: ChessApp's state (useState), names as in the source
  game,           \* the Chess object
  orientation,    \* "white" | "black"
  gameStatus,     \* "playing" | "checkmate" | "draw" | "stalemate" | "timeout" | "resigned"
  lastMove,       \* Null or <<[from, to]>>
  moveList,       \* SAN texts
  vsBot,
  bot,            \* the Bot's skill
  botThinking,
  whiteTime,
  blackTime,
  clockRunning,
  analysisScore,  \* Null or <<score>>
  showResignMenu,
  \* ---- Spec: the page's StockfishEngine (stockfishRef) and its worker
  scriptPending,  \* the stockfish.js script tag has neither loaded nor failed
  sfWorker,       \* this.worker is set
  sfReady,        \* this.ready
  messageHandler, \* Null or <<the handleBotMove closure start() was given>>
  searches,       \* FEN texts of the worker's 'go' commands not yet answered
  \* ---- Spec: scheduling
  timers,         \* pending 200 ms bot timers: the closures [game, bot]
  fx,             \* effects whose dependencies changed in the last render
  posted,         \* the commands the last operation posted to the worker
  \* ---- LibSpec: the exported StockfishEngine, its worker and its callers
  libEngine,      \* the Worker object: "none" | "booting" | "up" | "dead"
  libWorker,      \* this.worker is set
  libReady,       \* this.ready
  libOnMessage,   \* worker.onmessage: "none" | "waitUciok" | "handleMessage"
  libOnAnalysis,  \* this.onAnalysis is set
  libOnBestMove,  \* Null or <<k>>: this.onBestMove is the callback of call k
  libInitTimer,   \* the 5 s timer of init is pending
  libInitResult,  \* Null or <<what init's promise resolved with>>
  promises,       \* findBestMove calls: [done, value, timer, prev, fen]
  libSearches,    \* FEN texts of the worker's 'go' commands not yet answered
  libPosted,      \* the commands the last operation posted to the worker
  libCalls,       \* the onAnalysis invocations of the last operation
  libMsg,         \* Null or <<the bestmove the worker posted in the last step>>
  \* ---- R960Spec: one call of random960Position
  rolls,          \* the values Math.floor(Math.random() * n) of the call, in order
  fen960,         \* Null or <<the FEN the call returned>>
  \* ---- BoardSpec: the ChessBoard component (useState), names as in the source
  selectedSquare, \* Null or <<square name>>
  possibleMoves,  \* the square names of the array, as a set
  boardPosition,  \* Null or <<the position prop the reset effect ran for last>>
  onMoveCall,     \* Null or <<[from, to, promotion]>>: the onMove call of the last step
  \* ---- Spec: ChessApp's variant (useState), set by the variant buttons only
  variant,        \* "chess" | "960"
  \* ---- DepthSpec: the depth computation of the bot trigger for two bots
  skills,         \* <<bot.skill of one bot, bot.skill of another>>
  depths          \* Null or <<the depths computed for the two, in order>>

evalVars == <<evalFen, fbScore, seScore>>

reactVars == <<game, orientation, gameStatus, lastMove, moveList, vsBot, bot,
               botThinking, whiteTime, blackTime, clockRunning, analysisScore,
               showResignMenu>>

engineVars == <<scriptPending, sfWorker, sfReady, messageHandler, searches>>

pageVars == <<reactVars, engineVars, timers, fx, posted>>

libVars == <<libEngine, libWorker, libReady, libOnMessage, libOnAnalysis,
             libOnBestMove, libInitTimer, libInitResult, promises, libSearches,
             libPosted, libCalls, libMsg>>

r960Vars == <<rolls, fen960>>

boardVars == <<selectedSquare, possibleMoves, boardPosition, onMoveCall>>

depthVars == <<skills, depths>>

\* what the page's steps leave alone
offPage == <<evalVars, libVars, r960Vars, boardVars, depthVars, variant>>

vars == <<evalVars, pageVars, libVars, r960Vars, boardVars, depthVars, variant>>

\* null is the empty sequence and a value v is <<v>>
Null == <<>>
Some(v) == <<v>>

----------------------------------------------------------------------------
(* Text helpers *)

\* index of the first " " in s, or Len(s)+1
FirstSpace(s) ==
  IF \E i \in 1..Len(s) : s[i] = " "
  THEN CHOOSE i \in 1..Len(s) : s[i] = " " /\ \A j \in 1..(i-1) : s[j] # " "
  ELSE Len(s) + 1

\* fen.split(' ')[0]
FirstField(s) == SubSeq(s, 1, FirstSpace(s) - 1)

----------------------------------------------------------------------------
(* Static evaluators *)

\* the table `values` of fallbackEval; 0 stands for "undefined" as well,
\* which the loop skips
FallbackValues(ch) ==
  CASE ch = "P" -> 100  [] ch = "N" -> 300  [] ch = "B" -> 325
    [] ch = "R" -> 500  [] ch = "Q" -> 900  [] ch = "K" -> 0
    [] ch = "p" -> -100 [] ch = "n" -> -300 [] ch = "b" -> -325
    [] ch = "r" -> -500 [] ch = "q" -> -900 [] ch = "k" -> 0
    [] OTHER -> 0

\* the table `pieces` of simpleEval
SimplePieces(ch) ==
  CASE ch = "P" -> 100  [] ch = "N" -> 300  [] ch = "B" -> 300
    [] ch = "R" -> 500  [] ch = "Q" -> 900  [] ch = "K" -> 0
    [] ch = "p" -> -100 [] ch = "n" -> -300 [] ch = "b" -> -300
    [] ch = "r" -> -500 [] ch = "q" -> -900 [] ch = "k" -> 0
    [] OTHER -> 0

RECURSIVE SumFallback(_)
SumFallback(s) ==
  IF s = <<>> THEN 0 ELSE FallbackValues(Head(s)) + SumFallback(Tail(s))

RECURSIVE SumSimple(_)
SumSimple(s) ==
  IF s = <<>> THEN 0 ELSE SimplePieces(Head(s)) + SumSimple(Tail(s))

\* fallbackEval with the bishop of simpleEval's table
fallbackEval_BishopThree(fen) == SumSimple(FirstField(fen))

fallbackEval(fen) == SumFallback(FirstField(fen))

simpleEval(fen) == SumSimple(FirstField(fen))

----------------------------------------------------------------------------
(* The rules library the page imports (chess.js, `import { Chess }`),       *)
(* on a board cut down to the files and ranks named below: kings, queens,   *)
(* rooks, bishops, knights and pawns that step one square, capture          *)
(* diagonally and promote on the last rank.  Castling and en passant do     *)
(* not arise on this board; their FEN fields are always "-".                *)

FileNames == <<"a", "b", "c">>
RankNames == <<"1", "2", "3">>

NumFiles == Len(FileNames)
NumRanks == Len(RankNames)

Squares == (1..NumFiles) \X (1..NumRanks)

Empty == "."
WhitePieces == {"K", "Q", "R", "B", "N", "P"}
BlackPieces == {"k", "q", "r", "b", "n", "p"}

ColorOf(p) == IF p \in WhitePieces THEN "w" ELSE "b"
Other(c) == IF c = "w" THEN "b" ELSE "w"

\* the piece letter in upper case
Kind(p) ==
  CASE p \in {"K", "k"} -> "K" [] p \in {"Q", "q"} -> "Q" [] p \in {"R", "r"} -> "R"
    [] p \in {"B", "b"} -> "B" [] p \in {"N", "n"} -> "N" [] p \in {"P", "p"} -> "P"

\* the piece of kind k and colour c
PieceOf(k, c) ==
  IF c = "w" THEN k
  ELSE CASE k = "K" -> "k" [] k = "Q" -> "q" [] k = "R" -> "r"
         [] k = "B" -> "b" [] k = "N" -> "n" [] k = "P" -> "p"

Abs(x) == IF x < 0 THEN -x ELSE x
Sign(x) == IF x < 0 THEN -1 ELSE IF x > 0 THEN 1 ELSE 0
Max2(a, b) == IF a > b THEN a ELSE b

\* the squares strictly between two squares of one line are empty
ClearPath(board, from, to) ==
  LET df == to[1] - from[1]
      dr == to[2] - from[2]
      n  == Max2(Abs(df), Abs(dr))
  IN \A i \in 1..(n - 1) :
       board[<<from[1] + Sign(df) * i, from[2] + Sign(dr) * i>>] = Empty

\* the piece on `from` attacks `to` (pawns: the capture squares)
Attacks(board, from, to) ==
  LET p  == board[from]
      df == to[1] - from[1]
      dr == to[2] - from[2]
  IN /\ from # to
     /\ CASE Kind(p) = "K" -> Max2(Abs(df), Abs(dr)) = 1
          [] Kind(p) = "N" -> {Abs(df), Abs(dr)} = {1, 2}
          [] Kind(p) = "R" -> (df = 0 \/ dr = 0) /\ ClearPath(board, from, to)
          [] Kind(p) = "B" -> Abs(df) = Abs(dr) /\ ClearPath(board, from, to)
          [] Kind(p) = "Q" -> (df = 0 \/ dr = 0 \/ Abs(df) = Abs(dr))
                              /\ ClearPath(board, from, to)
          [] Kind(p) = "P" -> dr = (IF p = "P" THEN 1 ELSE -1) /\ Abs(df) = 1

\* the piece on `from` may go to `to`, check aside
PseudoLegal(board, from, to) ==
  LET p == board[from]
  IN /\ p # Empty
     /\ from # to
     /\ (board[to] = Empty \/ ColorOf(board[to]) # ColorOf(p))
     /\ IF Kind(p) = "P"
        THEN \/ /\ to[1] = from[1]
                /\ to[2] - from[2] = (IF p = "P" THEN 1 ELSE -1)
                /\ board[to] = Empty
             \/ /\ board[to] # Empty
                /\ Attacks(board, from, to)
        ELSE Attacks(board, from, to)

LastRank(c) == IF c = "w" THEN NumRanks ELSE 1

IsPromotion(board, from, to) ==
  Kind(board[from]) = "P" /\ to[2] = LastRank(ColorOf(board[from]))

\* the board after the piece on `from` went to `to`, promoting to kind
\* `promo` when it is a pawn reaching the last rank
MovePiece(board, from, to, promo) ==
  LET p == board[from]
      q == IF IsPromotion(board, from, to) THEN PieceOf(promo, ColorOf(p)) ELSE p
  IN [sq \in Squares |-> IF sq = from THEN Empty ELSE IF sq = to THEN q ELSE board[sq]]

\* colour c's king is attacked
KingAttacked(board, c) ==
  \E k \in Squares :
    /\ board[k] = PieceOf("K", c)
    /\ \E s \in Squares :
         board[s] # Empty /\ ColorOf(board[s]) # c /\ Attacks(board, s, k)

PromoKinds == {"Q", "R", "B", "N"}

\* a move is [from, to, promo]: promo is "" unless a pawn reaches the last rank
NoPromo == ""

\* game.moves({verbose: true}): the legal moves of the side to move, as an
\* enumerated set
LegalMoves(g) ==
  LET own == {s \in Squares : g.board[s] # Empty /\ ColorOf(g.board[s]) = g.turn}
      targets(f) == {t \in Squares : PseudoLegal(g.board, f, t)}
      promos(f, t) == IF IsPromotion(g.board, f, t) THEN PromoKinds ELSE {NoPromo}
      safe(f, t) == {p \in promos(f, t) :
                      ~KingAttacked(MovePiece(g.board, f, t, p), g.turn)}
      all == UNION {UNION {{[from |-> f, to |-> t, promo |-> p] : p \in safe(f, t)}
                             : t \in targets(f)} : f \in own}
  IN {m : m \in all}

IsCapture(g, m) == g.board[m.to] # Empty

\* the position key chess.js counts repetitions by
PositionKey(board, turn) == <<board, turn>>

\* the Chess object after a legal move m
MakeMove(g, m) ==
  LET b == MovePiece(g.board, m.from, m.to, m.promo)
      t == Other(g.turn)
  IN [board |-> b,
      turn  |-> t,
      half  |-> IF Kind(g.board[m.from]) = "P" \/ IsCapture(g, m) THEN 0 ELSE g.half + 1,
      full  |-> IF g.turn = "b" THEN g.full + 1 ELSE g.full,
      hist  |-> Append(g.hist, PositionKey(b, t))]

isCheck(g) == KingAttacked(g.board, g.turn)

isCheckmate(g) == isCheck(g) /\ LegalMoves(g) = {}

isStalemate(g) == ~isCheck(g) /\ LegalMoves(g) = {}

isDrawByFiftyMoves(g) == g.half >= 100

\* squares of one colour have an even file + rank
isInsufficientMaterial(g) ==
  LET others  == {s \in Squares : g.board[s] # Empty /\ Kind(g.board[s]) # "K"}
      bishops == {s \in others : Kind(g.board[s]) = "B"}
  IN \/ others = {}
     \/ Cardinality(others) = 1 /\ \A s \in others : Kind(g.board[s]) \in {"B", "N"}
     \/ /\ others = bishops
        /\ \A s, t \in bishops : (s[1] + s[2]) % 2 = (t[1] + t[2]) % 2

isThreefoldRepetition(g) ==
  \E i \in 1..Len(g.hist) :
    Cardinality({j \in 1..Len(g.hist) : g.hist[j] = g.hist[i]}) >= 3

\* chess.js: fifty moves, stalemate, insufficient material or repetition
isDraw(g) ==
  \/ isDrawByFiftyMoves(g)
  \/ isStalemate(g)
  \/ isInsufficientMaterial(g)
  \/ isThreefoldRepetition(g)

----------------------------------------------------------------------------
(* Notation: FEN text, square names, SAN and coordinate move strings *)

Digits == <<"0", "1", "2", "3", "4", "5", "6", "7", "8", "9">>

DigitChar(n) == Digits[n + 1]

\* decimal text of 0..99
Dec(n) == IF n < 10 THEN <<DigitChar(n)>> ELSE <<DigitChar(n \div 10), DigitChar(n % 10)>>

IsDigit(ch) == \E i \in 1..10 : Digits[i] = ch

DigitValue(ch) == (CHOOSE i \in 1..10 : Digits[i] = ch) - 1

RECURSIVE ParseNum(_)
ParseNum(s) ==
  IF s = <<>> THEN 0
  ELSE 10 * ParseNum(SubSeq(s, 1, Len(s) - 1)) + DigitValue(s[Len(s)])

\* 'e4' for a square
SqName(sq) == <<FileNames[sq[1]], RankNames[sq[2]]>>

SquareNames == {SqName(sq) : sq \in Squares}

\* rank r of the placement field from file f on, after `run` empty squares
RECURSIVE RankText(_, _, _, _)
RankText(board, r, f, run) ==
  LET gap == IF run > 0 THEN <<DigitChar(run)>> ELSE <<>>
  IN IF f > NumFiles THEN gap
     ELSE IF board[<<f, r>>] = Empty THEN RankText(board, r, f + 1, run + 1)
     ELSE gap \o <<board[<<f, r>>]>> \o RankText(board, r, f + 1, 0)

\* ranks r down to 1, '/' between them
RECURSIVE PlacementText(_, _)
PlacementText(board, r) ==
  IF r = 1 THEN RankText(board, 1, 1, 0)
  ELSE RankText(board, r, 1, 0) \o <<"/">> \o PlacementText(board, r - 1)

\* game.fen()
Fen(g) ==
  PlacementText(g.board, NumRanks) \o <<" ", g.turn, " ", "-", " ", "-", " ">>
    \o Dec(g.half) \o <<" ">> \o Dec(g.full)

\* s.split(' ')
RECURSIVE SplitSpaces(_)
SplitSpaces(s) ==
  IF FirstSpace(s) > Len(s) THEN <<s>>
  ELSE <<FirstField(s)>> \o SplitSpaces(SubSeq(s, FirstSpace(s) + 1, Len(s)))

EmptyBoard == [sq \in Squares |-> Empty]

\* the board a placement field denotes, read from file f of rank r on
RECURSIVE ParsePlacement(_, _, _, _)
ParsePlacement(s, f, r, board) ==
  IF s = <<>> THEN board
  ELSE IF Head(s) = "/" THEN ParsePlacement(Tail(s), 1, r - 1, board)
  ELSE IF IsDigit(Head(s)) THEN ParsePlacement(Tail(s), f + DigitValue(Head(s)), r, board)
  ELSE ParsePlacement(Tail(s), f + 1, r, [board EXCEPT ![<<f, r>>] = Head(s)])

\* new Chess(fen): the position of the text, with a history of its own
Chess(text) ==
  LET fields == SplitSpaces(text)
      b == ParsePlacement(fields[1], 1, NumRanks, EmptyBoard)
      t == fields[2][1]
  IN [board |-> b,
      turn  |-> t,
      half  |-> ParseNum(fields[5]),
      full  |-> ParseNum(fields[6]),
      hist  |-> <<PositionKey(b, t)>>]

LowerOf(k) == PieceOf(k, "b")

\* the other legal moves of the same kind of piece to the same square
Rivals(g, m) ==
  {o \in LegalMoves(g) :
     /\ o.to = m.to
     /\ o.from # m.from
     /\ Kind(g.board[o.from]) = Kind(g.board[m.from])}

\* get_disambiguator
Disambiguator(g, m) ==
  LET rv == Rivals(g, m)
      sameFile == \E o \in rv : o.from[1] = m.from[1]
      sameRank == \E o \in rv : o.from[2] = m.from[2]
  IN IF rv = {} THEN <<>>
     ELSE IF sameFile /\ sameRank THEN SqName(m.from)
     ELSE IF sameFile THEN <<RankNames[m.from[2]]>>
     ELSE <<FileNames[m.from[1]]>>

\* move.san
San(g, m) ==
  LET k     == Kind(g.board[m.from])
      after == MakeMove(g, m)
      head  == IF k = "P"
               THEN IF IsCapture(g, m) THEN <<FileNames[m.from[1]]>> ELSE <<>>
               ELSE <<k>> \o Disambiguator(g, m)
      x     == IF IsCapture(g, m) THEN <<"x">> ELSE <<>>
      pr    == IF m.promo # NoPromo THEN <<"=", m.promo>> ELSE <<>>
      chk   == IF isCheckmate(after) THEN <<"#">>
               ELSE IF isCheck(after) THEN <<"+">> ELSE <<>>
  IN head \o x \o SqName(m.to) \o pr \o chk

\* the coordinate form the engine answers in: 'e2e4', 'e7e8q'
Coord(m) ==
  SqName(m.from) \o SqName(m.to)
    \o (IF m.promo # NoPromo THEN <<LowerOf(m.promo)>> ELSE <<>>)

\* game.moves()
moves(g) == {San(g, m) : m \in LegalMoves(g)}

\* chess.move({from, to, promotion}): those of the legal moves the object
\* matches; a promotion letter counts only for a move that promotes
MatchObject(legal, from, to, promotion) ==
  {m \in legal :
     /\ SqName(m.from) = from
     /\ SqName(m.to) = to
     /\ (m.promo = NoPromo \/ LowerOf(m.promo) = promotion)}

\* chess.move(string): SAN first, then the coordinate form
MatchString(g, str) ==
  LET legal   == LegalMoves(g)
      bySan   == {m \in legal : San(g, m) = str}
      byCoord == {m \in legal : Coord(m) = str}
  IN IF \E m \in legal : San(g, m) = str THEN {m : m \in bySan} ELSE {m : m \in byCoord}

----------------------------------------------------------------------------
(* ChessApp: helpers *)

\* the starting position `new Chess()` sets up, on the cut-down board
DEFAULT_POSITION ==
  <<"3", "/", "1", "P", "k", "/", "K", "R", "1", " ", "w", " ", "-", " ", "-", " ", "0", " ", "1">>

\* the skills of BOTS
BOTS == <<0, 5, 10, 15, 20>>

\* the bot the chooser is exercised with: the strongest
BotChoices == {BOTS[Len(BOTS)]}

\* useState(600) of timeControl, in ticks of the model
timeControl == 1

\* plies a game may be old for the board and Flip Board still to take input
MaxPlies == 1

\* bot requests (timers and searches) the scheduler holds at once
MaxInFlight == 2

StatusValues == {"playing", "checkmate", "draw", "stalemate", "timeout", "resigned"}

NoFx == [gameOver |-> FALSE, analysis |-> FALSE, botMove |-> FALSE]

\* every effect has run since the last render
Settled == fx = NoFx

botColor == IF orientation = "white" THEN "black" ELSE "white"

currentTurn == IF game.turn = "w" THEN "white" ELSE "black"

\* the plies played to reach g from the starting position
Plies(g) == 2 * (g.full - 1) + (IF g.turn = "b" THEN 1 ELSE 0)

\* the games the pending bot requests hold in their closures
ClosureGames ==
  {timers[i].game : i \in 1..Len(timers)}
    \cup (IF messageHandler = Null THEN {} ELSE {messageHandler[1].game})

\* the effects whose dependency lists changed between this render and the
\* next: [game] for the game-over check, [game.fen(), gameStatus] for the
\* analysis, [game.fen(), vsBot, gameStatus, orientation, bot, botThinking,
\* handleBotMove] for the bot trigger; handleBotMove changes with [game]
FxAfter(gameSet) ==
  [gameOver |-> gameSet,
   analysis |-> Fen(game') # Fen(game) \/ gameStatus' # gameStatus,
   botMove  |-> \/ Fen(game') # Fen(game)
                \/ vsBot' # vsBot
                \/ gameStatus' # gameStatus
                \/ orientation' # orientation
                \/ bot' # bot
                \/ botThinking' # botThinking
                \/ gameSet]

\* Math.floor(Math.max(10, 20 - bot.skill * 0.3)), in tenths before the floor
SearchDepth(skill) == Max2(100, 200 - skill * 3) \div 10

\* findFallbackMove: the SAN texts it may return, '' when there is no move
findFallbackMove(g) ==
  LET all      == moves(g)
      captures == {m \in all : \E i \in 1..Len(m) : m[i] = "x"}
  IN IF all = {} THEN {<<>>}
     ELSE IF captures # {} THEN captures
     ELSE all

\* move.slice(a, b) with 0-based a, b as in the source
Slice(str, a, b) == SubSeq(str, a + 1, IF b < Len(str) THEN b ELSE Len(str))

----------------------------------------------------------------------------
(* ChessApp: handlers.  Each leaves the effects it invalidates in fx, and    *)
(* no handler runs before the effects of the previous render have run.      *)

\* promotion || 'r'
PromotionOrQueen_Rook(promotion) == IF promotion = NoPromo THEN "r" ELSE promotion

\* the promotion letter handleMove passes on: promotion || 'q'
PromotionOrQueen(promotion) == IF promotion = NoPromo THEN "q" ELSE promotion

\* what the board and callers pass as promotion: nothing, or 'q'
PromoInputs == {NoPromo, "q"}

\* handleMove without its gameStatus test
handleMoveRejects_IgnoresStatus(legal, from, to, promotion) ==
  MatchObject(legal, from, to, PromotionOrQueen(promotion)) = {}

\* handleMove turns the move down; legal are the moves of its newGame
handleMoveRejects(legal, from, to, promotion) ==
  \/ gameStatus # "playing"
  \/ MatchObject(legal, from, to, PromotionOrQueen(promotion)) = {}

\* handleMove(from, to, promotion) returning `result`: newGame is its
\* new Chess(game.fen()) and legal the moves of newGame.  The board, reached
\* only while the resign dialog is closed, calls it as onMove
HandleMoveOn(newGame, legal, from, to, promotion, result) ==
  /\ Settled
  /\ ~showResignMenu
  /\ posted' = <<>>
  /\ IF handleMoveRejects(legal, from, to, promotion)
     THEN /\ result = FALSE
          /\ UNCHANGED <<reactVars, engineVars, timers, fx>>
     ELSE LET move == CHOOSE m \in MatchObject(legal, from, to,
                                               PromotionOrQueen(promotion)) : TRUE
          IN /\ result = TRUE
             /\ game' = MakeMove(newGame, move)
             /\ lastMove' = Some([from |-> from, to |-> to])
             /\ moveList' = Append(moveList, San(newGame, move))
             /\ clockRunning' = TRUE
             /\ UNCHANGED <<orientation, gameStatus, vsBot, bot, botThinking,
                            whiteTime, blackTime, analysisScore, showResignMenu,
                            engineVars, timers>>
             /\ fx' = FxAfter(TRUE)

HandleMove(from, to, promotion, result) ==
  \E newGame \in {Chess(Fen(game))} :
    \E legal \in {LegalMoves(newGame)} :
      HandleMoveOn(newGame, legal, from, to, promotion, result)

HandleMoveInputs == SquareNames \X SquareNames \X PromoInputs

\* any call of handleMove in a game of fewer than `limit` plies: the calls
\* that go through, and one call for the rejected ones, which all leave the
\* same state
HandleMoveWithin(limit) ==
  \E newGame \in {Chess(Fen(game))} :
    \E legal \in {LegalMoves(newGame)} :
      \/ \E i \in HandleMoveInputs :
           /\ ~handleMoveRejects(legal, i[1], i[2], i[3])
           /\ Plies(newGame) < limit
           /\ HandleMoveOn(newGame, legal, i[1], i[2], i[3], TRUE)
      \/ /\ {i \in HandleMoveInputs : handleMoveRejects(legal, i[1], i[2], i[3])} # {}
         /\ LET i == CHOOSE j \in HandleMoveInputs :
                       handleMoveRejects(legal, j[1], j[2], j[3])
            IN HandleMoveOn(newGame, legal, i[1], i[2], i[3], FALSE)

AnyHandleMove == HandleMoveWithin(MaxPlies)

\* what random960Position() may return, on the cut-down board: White's rook
\* on either of the squares the kings leave it, the default one included
Positions960 ==
  { DEFAULT_POSITION,
    <<"3", "/", "1", "P", "k", "/", "K", "1", "R", " ", "w", " ", "-", " ", "-", " ", "0", " ", "1">> }

\* the positions newGame sets up when its closure holds the variant v
StartPositions(v) == IF v = "960" THEN Positions960 ELSE {DEFAULT_POSITION}

\* newGame(botSelected): botSelected is Null or <<skill>>
NewGame(botSelected) ==
  /\ Settled
  /\ ~showResignMenu
  /\ \E start \in StartPositions(variant) : game' = Chess(start)
  /\ moveList' = <<>>
  /\ lastMove' = Null
  /\ gameStatus' = "playing"
  /\ whiteTime' = timeControl
  /\ blackTime' = timeControl
  /\ clockRunning' = FALSE
  /\ analysisScore' = Null
  /\ showResignMenu' = FALSE
  /\ IF botSelected # Null
     THEN /\ bot' = botSelected[1]
          /\ vsBot' = TRUE
          /\ orientation' = "white"
     ELSE /\ vsBot' = FALSE
          /\ UNCHANGED <<bot, orientation>>
  /\ UNCHANGED <<botThinking, engineVars, timers>>
  /\ posted' = <<>>
  /\ fx' = FxAfter(TRUE)

\* the New Game button
ClickNewGame == NewGame(Null)

\* a variant button: setVariant(v.id); newGame(), the newGame of the render
\* the button belongs to
ClickVariant(v) ==
  /\ NewGame(Null)
  /\ variant' = v

\* a bot of the chooser
ClickBot == \E b \in BotChoices : NewGame(Some(b))

\* the restart button beside the clock: newGame(vsBot ? bot : undefined)
ClickRestart == NewGame(IF vsBot THEN Some(bot) ELSE Null)

\* a state update that touches none of game, gameStatus, clocks, bot
OnlyUi == UNCHANGED <<game, lastMove, moveList, vsBot, bot, botThinking,
                      whiteTime, blackTime, analysisScore, engineVars, timers>>

\* the Resign button of the header, shown while playing
OpenResignMenu ==
  /\ Settled
  /\ ~showResignMenu
  /\ gameStatus = "playing"
  /\ showResignMenu' = TRUE
  /\ OnlyUi
  /\ UNCHANGED <<orientation, gameStatus, clockRunning>>
  /\ posted' = <<>>
  /\ fx' = FxAfter(FALSE)

\* Cancel in the resign dialog
CancelResign ==
  /\ Settled
  /\ showResignMenu
  /\ showResignMenu' = FALSE
  /\ OnlyUi
  /\ UNCHANGED <<orientation, gameStatus, clockRunning>>
  /\ posted' = <<>>
  /\ fx' = FxAfter(FALSE)

\* resign, from the dialog
Resign ==
  /\ Settled
  /\ showResignMenu
  /\ gameStatus' = "resigned"
  /\ clockRunning' = FALSE
  /\ showResignMenu' = FALSE
  /\ OnlyUi
  /\ UNCHANGED orientation
  /\ posted' = <<>>
  /\ fx' = FxAfter(FALSE)

\* offerDraw without setClockRunning(false)
OfferDraw_KeepsClock ==
  /\ Settled
  /\ ~showResignMenu
  /\ gameStatus = "playing"
  /\ gameStatus' = "draw"
  /\ OnlyUi
  /\ UNCHANGED <<orientation, showResignMenu, clockRunning>>
  /\ posted' = <<>>
  /\ fx' = FxAfter(FALSE)

\* offerDraw, its button shown while playing
OfferDraw ==
  /\ Settled
  /\ ~showResignMenu
  /\ gameStatus = "playing"
  /\ gameStatus' = "draw"
  /\ clockRunning' = FALSE
  /\ OnlyUi
  /\ UNCHANGED <<orientation, showResignMenu>>
  /\ posted' = <<>>
  /\ fx' = FxAfter(FALSE)

\* Flip Board
FlipBoard ==
  /\ Settled
  /\ ~showResignMenu
  /\ \A g \in {game} \cup ClosureGames : Plies(g) < MaxPlies
  /\ orientation' = IF orientation = "white" THEN "black" ELSE "white"
  /\ OnlyUi
  /\ UNCHANGED <<gameStatus, clockRunning, showResignMenu>>
  /\ posted' = <<>>
  /\ fx' = FxAfter(FALSE)

\* the play/pause button of the clock, disabled unless playing
ToggleClock ==
  /\ Settled
  /\ ~showResignMenu
  /\ gameStatus = "playing"
  /\ clockRunning' = ~clockRunning
  /\ OnlyUi
  /\ UNCHANGED <<orientation, gameStatus, showResignMenu>>
  /\ posted' = <<>>
  /\ fx' = FxAfter(FALSE)

\* the tick with `t < 0` for `t <= 0`
Tick_NoFloor ==
  /\ Settled
  /\ clockRunning
  /\ gameStatus = "playing"
  /\ LET t == IF game.turn = "w" THEN whiteTime ELSE blackTime
     IN IF t < 0
        THEN /\ clockRunning' = FALSE
             /\ gameStatus' = "timeout"
             /\ whiteTime' = IF game.turn = "w" THEN 0 ELSE whiteTime
             /\ blackTime' = IF game.turn = "w" THEN blackTime ELSE 0
        ELSE /\ whiteTime' = IF game.turn = "w" THEN t - 1 ELSE whiteTime
             /\ blackTime' = IF game.turn = "w" THEN blackTime ELSE t - 1
             /\ UNCHANGED <<clockRunning, gameStatus>>
  /\ UNCHANGED <<game, orientation, lastMove, moveList, vsBot, bot, botThinking,
                 analysisScore, showResignMenu, engineVars, timers>>
  /\ posted' = <<>>
  /\ fx' = FxAfter(FALSE)

\* one firing of the clock's interval, which exists while the clock runs
\* and the game is being played
Tick ==
  /\ Settled
  /\ clockRunning
  /\ gameStatus = "playing"
  /\ LET t == IF game.turn = "w" THEN whiteTime ELSE blackTime
     IN IF t <= 0
        THEN /\ clockRunning' = FALSE
             /\ gameStatus' = "timeout"
             /\ whiteTime' = IF game.turn = "w" THEN 0 ELSE whiteTime
             /\ blackTime' = IF game.turn = "w" THEN blackTime ELSE 0
        ELSE /\ whiteTime' = IF game.turn = "w" THEN t - 1 ELSE whiteTime
             /\ blackTime' = IF game.turn = "w" THEN blackTime ELSE t - 1
             /\ UNCHANGED <<clockRunning, gameStatus>>
  /\ UNCHANGED <<game, orientation, lastMove, moveList, vsBot, bot, botThinking,
                 analysisScore, showResignMenu, engineVars, timers>>
  /\ posted' = <<>>
  /\ fx' = FxAfter(FALSE)

\* getWinnerText(): Null, or the text in its parts
getWinnerText ==
  LET winner == IF game.turn = "w" THEN "Black" ELSE "White"
  IN CASE gameStatus = "checkmate" -> Some(<<winner, " wins by checkmate!">>)
       [] gameStatus = "resigned"  -> Some(<<winner, " wins - opponent resigned!">>)
       [] gameStatus = "timeout"   -> Some(<<winner, " wins on time!">>)
       [] gameStatus = "draw"      -> Some(<<"Draw!">>)
       [] gameStatus = "stalemate" -> Some(<<"Stalemate!">>)
       [] OTHER                    -> Null

----------------------------------------------------------------------------
(* ChessApp: the bot *)

\* the trigger effect without its botThinking test
BotTrigger_IgnoresThinking ==
  /\ vsBot
  /\ gameStatus = "playing"
  /\ currentTurn = botColor

\* the guard of the bot-move trigger effect
BotTrigger ==
  /\ vsBot
  /\ gameStatus = "playing"
  /\ ~botThinking
  /\ currentTurn = botColor

\* the game-over effect without its checkmate branch
GameOverStatus_NoCheckmate(g) ==
  IF isDraw(g) THEN "draw"
  ELSE IF isStalemate(g) THEN "stalemate"
  ELSE ""

\* the game-over effect's verdict on the game, "" when it sets nothing
GameOverStatus(g) ==
  IF isCheckmate(g) THEN "checkmate"
  ELSE IF isDraw(g) THEN "draw"
  ELSE IF isStalemate(g) THEN "stalemate"
  ELSE ""

\* the move handleBotMove applies for a move text, on the game its closure
\* holds: the empty set when the text is empty or chess.move finds none
BotMoveFound(closureGame, move) ==
  IF move = <<>> THEN {} ELSE MatchString(Chess(Fen(closureGame)), move)

\* handleBotMove with setBotThinking(false) only after an applied move
HandleBotMove_KeepsThinking(closureGame, move) ==
  \E newGame \in {Chess(Fen(closureGame))} :
    \E found \in {BotMoveFound(closureGame, move)} :
      /\ IF found = {}
         THEN /\ UNCHANGED <<game, lastMove, moveList, botThinking>>
         ELSE \E moveResult \in {CHOOSE m \in found : TRUE} :
                /\ botThinking' = FALSE
                /\ game' = MakeMove(newGame, moveResult)
                /\ lastMove' = Some([from |-> Slice(move, 0, 2), to |-> Slice(move, 2, 4)])
                /\ moveList' = Append(moveList, San(newGame, moveResult))
      /\ UNCHANGED <<orientation, gameStatus, vsBot, bot, whiteTime, blackTime,
                     clockRunning, analysisScore, showResignMenu>>
      /\ fx' = FxAfter(found # {})

\* handleBotMove(move), as the closure over closureGame
HandleBotMove(closureGame, move) ==
  \E newGame \in {Chess(Fen(closureGame))} :
    \E found \in {BotMoveFound(closureGame, move)} :
      /\ botThinking' = FALSE
      /\ IF found = {}
         THEN /\ UNCHANGED <<game, lastMove, moveList>>
         ELSE \E moveResult \in {CHOOSE m \in found : TRUE} :
                /\ game' = MakeMove(newGame, moveResult)
                /\ lastMove' = Some([from |-> Slice(move, 0, 2), to |-> Slice(move, 2, 4)])
                /\ moveList' = Append(moveList, San(newGame, moveResult))
      /\ UNCHANGED <<orientation, gameStatus, vsBot, bot, whiteTime, blackTime,
                     clockRunning, analysisScore, showResignMenu>>
      /\ fx' = FxAfter(found # {})

\* the commands start() posts
StartCommands(fenText, depth, skillLevel) ==
  << [cmd |-> "setoption", arg |-> Dec(skillLevel)],
     [cmd |-> "position", arg |-> fenText],
     [cmd |-> "go", arg |-> Dec(depth)] >>

\* the 200 ms timer of the trigger effect fires, with the game, the bot and
\* the handleBotMove of the render that set it
BotTimer(i) ==
  /\ Settled
  /\ i \in 1..Len(timers)
  /\ timers' = SubSeq(timers, 1, i - 1) \o SubSeq(timers, i + 1, Len(timers))
  /\ LET c == timers[i]
     IN IF sfReady
        THEN \* stockfishRef.current.start(game.fen(), depth, bot.skill, handleBotMove)
             IF ~sfWorker \/ ~sfReady
             THEN /\ posted' = <<>>
                  /\ UNCHANGED <<reactVars, engineVars, fx>>
             ELSE /\ posted' = StartCommands(Fen(c.game), SearchDepth(c.bot), c.bot)
                  /\ searches' = Append(searches, Fen(c.game))
                  /\ messageHandler' = Some([game |-> c.game])
                  /\ UNCHANGED <<reactVars, scriptPending, sfWorker, sfReady, fx>>
        ELSE /\ posted' = <<>>
             /\ \E move \in findFallbackMove(c.game) : HandleBotMove(c.game, move)
             /\ UNCHANGED engineVars

NoneMove == <<"(", "n", "o", "n", "e", ")">>

\* what the engine may answer a search of fenText with: a legal move in
\* coordinate form, '(none)' when the side to move has none
EngineAnswers(fenText) ==
  LET g == Chess(fenText)
  IN IF LegalMoves(g) = {} THEN {NoneMove} ELSE {Coord(m) : m \in LegalMoves(g)}

\* a move text that no position allows
StrayMove == <<"a", "1", "a", "1">>

\* msg.split(' ')[1] of a 'bestmove' line: the handler takes whatever text
\* the worker sends, an engine's answer or a text that is no move
WorkerTexts(fenText) == EngineAnswers(fenText) \cup {StrayMove}

\* the worker posts 'bestmove <move>' for its oldest search; worker.onmessage
\* hands it to messageHandler, the handler start() installed
WorkerBestMove ==
  /\ Settled
  /\ searches # <<>>
  /\ searches' = Tail(searches)
  /\ posted' = <<>>
  /\ UNCHANGED <<scriptPending, sfWorker, sfReady, timers>>
  /\ \E move \in WorkerTexts(Head(searches)) :
       IF messageHandler = Null
       THEN UNCHANGED <<reactVars, messageHandler, fx>>
       ELSE /\ messageHandler' = Null
            /\ IF move # NoneMove
               THEN HandleBotMove(messageHandler[1].game, move)
               ELSE UNCHANGED <<reactVars, fx>>

\* script.onload: window.stockfish() gives a worker, or none, or throws
ScriptLoaded ==
  /\ Settled
  /\ scriptPending
  /\ scriptPending' = FALSE
  /\ \E created \in BOOLEAN :
       /\ sfWorker' = created
       /\ posted' = IF created THEN <<[cmd |-> "uci", arg |-> <<>>]>> ELSE <<>>
  /\ UNCHANGED <<reactVars, sfReady, messageHandler, searches, timers, fx>>

\* script.onerror
ScriptError ==
  /\ Settled
  /\ scriptPending
  /\ scriptPending' = FALSE
  /\ posted' = <<>>
  /\ UNCHANGED <<reactVars, sfWorker, sfReady, messageHandler, searches, timers, fx>>

\* the worker's 'uciok'
WorkerUciok ==
  /\ Settled
  /\ sfWorker
  /\ ~sfReady
  /\ sfReady' = TRUE
  /\ posted' = <<>>
  /\ UNCHANGED <<reactVars, scriptPending, sfWorker, messageHandler, searches, timers, fx>>

----------------------------------------------------------------------------
(* ChessApp: effects.  One pass runs the effects whose dependencies changed, *)
(* each on the values of the render it belongs to.                          *)

RunEffects ==
  /\ ~Settled
  /\ LET over    == IF fx.gameOver THEN GameOverStatus(game) ELSE ""
         trigger == fx.botMove /\ BotTrigger
     IN /\ gameStatus' = IF over # "" THEN over ELSE gameStatus
        /\ clockRunning' = IF over # "" THEN FALSE ELSE clockRunning
        /\ analysisScore' = IF fx.analysis /\ gameStatus = "playing"
                            THEN Some(simpleEval(Fen(game)))
                            ELSE analysisScore
        /\ botThinking' = IF trigger THEN TRUE ELSE botThinking
        /\ trigger => Len(timers) + Len(searches) < MaxInFlight
        /\ timers' = IF trigger THEN Append(timers, [game |-> game, bot |-> bot])
                     ELSE timers
  /\ UNCHANGED <<game, orientation, lastMove, moveList, vsBot, bot, whiteTime,
                 blackTime, showResignMenu, engineVars, posted>>
  /\ fx' = FxAfter(FALSE)

----------------------------------------------------------------------------
(* Spec: the page *)

PageInit ==
  /\ game = Chess(DEFAULT_POSITION)
  /\ variant = "chess"
  /\ orientation = "white"
  /\ gameStatus = "playing"
  /\ lastMove = Null
  /\ moveList = <<>>
  /\ vsBot = FALSE
  /\ bot = BOTS[1]
  /\ botThinking = FALSE
  /\ whiteTime = timeControl
  /\ blackTime = timeControl
  /\ clockRunning = FALSE
  /\ analysisScore = Null
  /\ showResignMenu = FALSE
  /\ scriptPending = TRUE
  /\ sfWorker = FALSE
  /\ sfReady = FALSE
  /\ messageHandler = Null
  /\ searches = <<>>
  /\ timers = <<>>
  /\ fx = [gameOver |-> TRUE, analysis |-> TRUE, botMove |-> TRUE]
  /\ posted = <<>>

EvalIdle ==
  /\ evalFen = <<>>
  /\ fbScore = Null
  /\ seScore = Null

\* the exported StockfishEngine after construction
LibNew ==
  /\ libEngine = "none"
  /\ libWorker = FALSE
  /\ libReady = FALSE
  /\ libOnMessage = "none"
  /\ libOnAnalysis = FALSE
  /\ libOnBestMove = Null
  /\ libInitTimer = FALSE
  /\ libInitResult = Null
  /\ promises = <<>>
  /\ libSearches = <<>>
  /\ libPosted = <<>>
  /\ libCalls = <<>>
  /\ libMsg = Null

\* random960Position has not been called
R960Idle ==
  /\ rolls = <<0, 0, 0, 0, 0>>
  /\ fen960 = Null

\* the ChessBoard component before its first effect
BoardNew ==
  /\ selectedSquare = Null
  /\ possibleMoves = {}
  /\ boardPosition = Null
  /\ onMoveCall = Null

\* the depth of no bot has been computed
DepthIdle ==
  /\ skills = <<0, 0>>
  /\ depths = Null

Init == PageInit /\ EvalIdle /\ LibNew /\ R960Idle /\ BoardNew /\ DepthIdle

Next ==
  \/ AnyHandleMove /\ UNCHANGED offPage
  \/ ClickNewGame /\ UNCHANGED offPage
  \/ ClickBot /\ UNCHANGED offPage
  \/ ClickRestart /\ UNCHANGED offPage
  \/ OpenResignMenu /\ UNCHANGED offPage
  \/ CancelResign /\ UNCHANGED offPage
  \/ Resign /\ UNCHANGED offPage
  \/ OfferDraw /\ UNCHANGED offPage
  \/ FlipBoard /\ UNCHANGED offPage
  \/ ToggleClock /\ UNCHANGED offPage
  \/ Tick /\ UNCHANGED offPage
  \/ RunEffects /\ UNCHANGED offPage
  \/ \E i \in 1..MaxInFlight : BotTimer(i) /\ UNCHANGED offPage
  \/ WorkerBestMove /\ UNCHANGED offPage
  \/ ScriptLoaded /\ UNCHANGED offPage
  \/ ScriptError /\ UNCHANGED offPage
  \/ WorkerUciok /\ UNCHANGED offPage

Spec == Init /\ [][Next]_vars

----------------------------------------------------------------------------
(* EvalSpec: the evaluators on every FEN text of up to MaxFenLen characters *)

MaxFenLen == 3

FenAlphabet ==
  {"P", "N", "B", "R", "Q", "K", "p", "n", "b", "r", "q", "k", "1", "/", " ", "w"}

FenTexts == UNION {[1..n -> FenAlphabet] : n \in 0..MaxFenLen}

EvalFallback ==
  /\ fbScore = Null
  /\ fbScore' = Some(fallbackEval(evalFen))
  /\ UNCHANGED <<evalFen, seScore>>

EvalSimple ==
  /\ seScore = Null
  /\ seScore' = Some(simpleEval(evalFen))
  /\ UNCHANGED <<evalFen, fbScore>>

EvalInit ==
  /\ evalFen \in FenTexts
  /\ fbScore = Null
  /\ seScore = Null
  /\ PageInit
  /\ LibNew
  /\ R960Idle
  /\ BoardNew
  /\ DepthIdle

EvalNext ==
  \/ EvalFallback /\ UNCHANGED <<pageVars, libVars, r960Vars, boardVars, depthVars, variant>>
  \/ EvalSimple /\ UNCHANGED <<pageVars, libVars, r960Vars, boardVars, depthVars, variant>>

EvalSpec == EvalInit /\ [][EvalNext]_vars

----------------------------------------------------------------------------
(* LibSpec: the exported StockfishEngine.  A worker message is a record;    *)
(* the regular expressions of handleMessage are not modelled.  A step       *)
(* leaves in libPosted what it posted and in libCalls what it handed to     *)
(* onAnalysis.                                                               *)

\* findBestMove calls of one run
MaxCalls == 2

\* 'go' commands the worker may have unanswered
MaxLibSearches == 2

\* the FEN texts the callers pass: a position with a bishop, and a position
\* in which the side to move is mated
LibFens ==
  { <<"1", "b", "1", "/", "2", "k", "/", "K", "2", " ", "b", " ", "-", " ", "-", " ", "0", " ", "1">>,
    <<"1", "Q", "1", "/", "2", "k", "/", "K", "R", "1", " ", "b", " ", "-", " ", "-", " ", "0", " ", "1">> }

\* the depths the callers pass to analyze: one of their own, and its default
LibDepths == {1, 20}

\* the depth and the skill the callers pass to findBestMove: its defaults
FindDepths == {12}
LibSkills == {20}

Cmd(c, a) == [cmd |-> c, arg |-> a]

\* send(cmd): this.worker?.postMessage(cmd)
send(cmds) == IF libWorker THEN cmds ELSE <<>>

\* the worker takes a 'go' it was sent while it lives
Queued(fenText) ==
  IF libWorker /\ libEngine \in {"booting", "up"}
  THEN Append(libSearches, fenText)
  ELSE libSearches

\* init's resolve(v): a promise keeps its first value
InitResolved(v) == IF libInitResult = Null THEN Some(v) ELSE libInitResult

\* init(), when `created` the Worker was made, else the try block threw
LibInit(created) ==
  /\ libEngine = "none"
  /\ libInitResult = Null
  /\ IF created
     THEN /\ libEngine' = "booting"
          /\ libWorker' = TRUE
          /\ libOnMessage' = "waitUciok"
          /\ libPosted' = <<Cmd("uci", <<>>)>>
          /\ libInitTimer' = TRUE
          /\ UNCHANGED libInitResult
     ELSE /\ libWorker' = FALSE
          /\ libInitResult' = Some(FALSE)
          /\ libPosted' = <<>>
          /\ UNCHANGED <<libEngine, libOnMessage, libInitTimer>>
  /\ libCalls' = <<>>
  /\ libMsg' = Null
  /\ UNCHANGED <<libReady, libOnAnalysis, libOnBestMove, promises, libSearches>>

\* the worker posts 'uciok': the handler init installed sets ready and, with
\* this.worker still set, restores handleMessage and sends the options; with
\* this.worker null the handler throws after setting ready
LibUciok ==
  /\ libEngine = "booting"
  /\ libEngine' = "up"
  /\ IF libOnMessage = "waitUciok"
     THEN /\ libReady' = TRUE
          /\ IF libWorker
             THEN /\ libOnMessage' = "handleMessage"
                  /\ libPosted' = << Cmd("setoption", <<"T">>), Cmd("setoption", <<"H">>),
                                     Cmd("isready", <<>>) >>
                  /\ libInitResult' = InitResolved(TRUE)
             ELSE /\ libPosted' = <<>>
                  /\ UNCHANGED <<libOnMessage, libInitResult>>
     ELSE /\ libPosted' = <<>>
          /\ UNCHANGED <<libReady, libOnMessage, libInitResult>>
  /\ libCalls' = <<>>
  /\ libMsg' = Null
  /\ UNCHANGED <<libWorker, libOnAnalysis, libOnBestMove, libInitTimer, promises,
                 libSearches>>

\* worker.onerror; the Worker may or may not go on running
LibWorkerError ==
  /\ libEngine \in {"booting", "up"}
  /\ libOnMessage # "none"
  /\ libWorker' = FALSE
  /\ libInitResult' = InitResolved(FALSE)
  /\ \E e \in {libEngine, "dead"} :
       /\ libEngine' = e
       /\ libSearches' = IF e = "dead" THEN <<>> ELSE libSearches
  /\ libPosted' = <<>>
  /\ libCalls' = <<>>
  /\ libMsg' = Null
  /\ UNCHANGED <<libReady, libOnMessage, libOnAnalysis, libOnBestMove, libInitTimer,
                 promises>>

\* the 5 s timer of init
LibInitTimeout ==
  /\ libInitTimer
  /\ libInitTimer' = FALSE
  /\ IF ~libReady
     THEN /\ libWorker' = FALSE
          /\ libInitResult' = InitResolved(FALSE)
     ELSE UNCHANGED <<libWorker, libInitResult>>
  /\ libPosted' = <<>>
  /\ libCalls' = <<>>
  /\ libMsg' = Null
  /\ UNCHANGED <<libEngine, libReady, libOnMessage, libOnAnalysis, libOnBestMove,
                 promises, libSearches>>

\* destroy()
LibDestroy ==
  /\ libEngine # "none"
  /\ libPosted' = send(<<Cmd("quit", <<>>)>>)
  /\ libEngine' = IF libWorker THEN "dead" ELSE libEngine
  /\ libSearches' = IF libWorker THEN <<>> ELSE libSearches
  /\ libWorker' = FALSE
  /\ libCalls' = <<>>
  /\ libMsg' = Null
  /\ UNCHANGED <<libReady, libOnMessage, libOnAnalysis, libOnBestMove, libInitTimer,
                 libInitResult, promises>>

\* setOnAnalysis(cb)
LibSetOnAnalysis ==
  /\ ~libOnAnalysis
  /\ libOnAnalysis' = TRUE
  /\ libPosted' = <<>>
  /\ libCalls' = <<>>
  /\ libMsg' = Null
  /\ UNCHANGED <<libEngine, libWorker, libReady, libOnMessage, libOnBestMove,
                 libInitTimer, libInitResult, promises, libSearches>>

\* the result analyze hands to onAnalysis without a worker
FallbackResult(fen, depth) ==
  [depth |-> depth, score |-> Some(fallbackEval(fen)), mate |-> Null,
   bestMove |-> Null, pv |-> <<>>]

\* analyze(fen, depth)
LibAnalyze(fen, depth) ==
  /\ Len(libSearches) < MaxLibSearches
  /\ IF ~libWorker
     THEN /\ libCalls' = IF libOnAnalysis THEN <<FallbackResult(fen, depth)>> ELSE <<>>
          /\ libPosted' = <<>>
          /\ UNCHANGED libSearches
     ELSE /\ libPosted' = send(<<Cmd("stop", <<>>), Cmd("position", fen),
                                 Cmd("go", Dec(depth))>>)
          /\ libSearches' = Queued(fen)
          /\ libCalls' = <<>>
  /\ libMsg' = Null
  /\ UNCHANGED <<libEngine, libWorker, libReady, libOnMessage, libOnAnalysis,
                 libOnBestMove, libInitTimer, libInitResult, promises>>

\* resolve(v) of call k, overwriting what the promise holds
Resolve_Overwrites(ps, k, v) == [ps EXCEPT ![k].done = TRUE, ![k].value = v]

\* resolve(v) of call k: a promise keeps its first value
Resolve(ps, k, v) ==
  IF ps[k].done THEN ps ELSE [ps EXCEPT ![k].done = TRUE, ![k].value = v]

\* findBestMove(fen, depth, skillLevel)
LibFindBestMove(fen, depth, skillLevel) ==
  /\ Len(promises) < MaxCalls
  /\ Len(libSearches) < MaxLibSearches
  /\ IF ~libWorker
     THEN /\ promises' = Append(promises, [done |-> TRUE, value |-> Null,
                                           timer |-> FALSE, prev |-> Null,
                                           fen |-> fen])
          /\ libPosted' = <<>>
          /\ UNCHANGED <<libOnBestMove, libSearches>>
     ELSE /\ libPosted' = send(<<Cmd("stop", <<>>), Cmd("setoption", Dec(skillLevel)),
                                 Cmd("position", fen), Cmd("go", Dec(depth))>>)
          /\ promises' = Append(promises, [done |-> FALSE, value |-> Null,
                                           timer |-> TRUE, prev |-> libOnBestMove,
                                           fen |-> fen])
          /\ libOnBestMove' = Some(Len(promises) + 1)
          /\ libSearches' = Queued(fen)
  /\ libCalls' = <<>>
  /\ libMsg' = Null
  /\ UNCHANGED <<libEngine, libWorker, libReady, libOnMessage, libOnAnalysis,
                 libInitTimer, libInitResult>>

\* the worker posts 'bestmove <move>' for its oldest search; handleMessage,
\* when it is the handler, passes a move other than '(none)' to onBestMove
LibBestMove ==
  /\ libEngine = "up"
  /\ libSearches # <<>>
  /\ libSearches' = Tail(libSearches)
  /\ \E move \in EngineAnswers(Head(libSearches)) :
       /\ libMsg' = Some(move)
       /\ IF libOnMessage = "handleMessage" /\ move # NoneMove /\ libOnBestMove # Null
          THEN /\ libOnBestMove' = promises[libOnBestMove[1]].prev
               /\ promises' = Resolve(promises, libOnBestMove[1], Some(move))
          ELSE UNCHANGED <<libOnBestMove, promises>>
  /\ libPosted' = <<>>
  /\ libCalls' = <<>>
  /\ UNCHANGED <<libEngine, libWorker, libReady, libOnMessage, libOnAnalysis,
                 libInitTimer, libInitResult>>

\* the 'info' lines the worker posts: depth, score in centipawns or mate
InfoLines ==
  { [depth |-> 1, score |-> Some(25), mate |-> Null],
    [depth |-> 1, score |-> Null, mate |-> Some(1)] }

\* the worker posts an 'info depth ... pv <move>' line for its oldest search
LibInfo ==
  /\ libEngine = "up"
  /\ libSearches # <<>>
  /\ libOnMessage = "handleMessage"
  /\ libOnAnalysis
  /\ \E line \in InfoLines, move \in EngineAnswers(Head(libSearches)) \ {NoneMove} :
       libCalls' = << [depth |-> line.depth, score |-> line.score, mate |-> line.mate,
                       bestMove |-> Some(move), pv |-> move] >>
  /\ libPosted' = <<>>
  /\ libMsg' = Null
  /\ UNCHANGED <<libEngine, libWorker, libReady, libOnMessage, libOnAnalysis,
                 libOnBestMove, libInitTimer, libInitResult, promises, libSearches>>

\* the 10 s safety timer of call k
LibTimeout(k) ==
  /\ k \in 1..Len(promises)
  /\ promises[k].timer
  /\ promises' = [Resolve(promises, k, Null) EXCEPT ![k].timer = FALSE]
  /\ libPosted' = <<>>
  /\ libCalls' = <<>>
  /\ libMsg' = Null
  /\ UNCHANGED <<libEngine, libWorker, libReady, libOnMessage, libOnAnalysis,
                 libOnBestMove, libInitTimer, libInitResult, libSearches>>

offLib == <<evalVars, pageVars, r960Vars, boardVars, depthVars, variant>>

LibStart == PageInit /\ EvalIdle /\ LibNew /\ R960Idle /\ BoardNew /\ DepthIdle

LibNext ==
  \/ \E created \in BOOLEAN : LibInit(created) /\ UNCHANGED offLib
  \/ LibUciok /\ UNCHANGED offLib
  \/ LibWorkerError /\ UNCHANGED offLib
  \/ LibInitTimeout /\ UNCHANGED offLib
  \/ LibDestroy /\ UNCHANGED offLib
  \/ LibSetOnAnalysis /\ UNCHANGED offLib
  \/ \E fen \in LibFens, depth \in LibDepths : LibAnalyze(fen, depth) /\ UNCHANGED offLib
  \/ \E fen \in LibFens, depth \in FindDepths, skillLevel \in LibSkills :
       LibFindBestMove(fen, depth, skillLevel) /\ UNCHANGED offLib
  \/ LibBestMove /\ UNCHANGED offLib
  \/ LibInfo /\ UNCHANGED offLib
  \/ \E k \in 1..MaxCalls : LibTimeout(k) /\ UNCHANGED offLib

LibSpec == LibStart /\ [][LibNext]_vars

\* a timer that was set fires
LibFairness == \A k \in 1..MaxCalls : WF_vars(LibTimeout(k) /\ UNCHANGED offLib)

LibFairSpec == LibStart /\ [][LibNext]_vars /\ LibFairness

----------------------------------------------------------------------------
(* RepSpec: one long game on the board, two players, no bot: handleMove and  *)
(* the effects only.                                                        *)

\* plies of the long game
MaxRepPlies == 8

RepNext ==
  \/ HandleMoveWithin(MaxRepPlies) /\ UNCHANGED offPage
  \/ RunEffects /\ UNCHANGED offPage

RepSpec == Init /\ [][RepNext]_vars

----------------------------------------------------------------------------
(* R960Spec: random960Position for every outcome of its random choices.     *)
(* The back rank is an array over the indices 0..7, '' the empty string.     *)

\* Array(8).fill('')
NoRank == [i \in 0..7 |-> <<>>]

darkSquares == <<0, 2, 4, 6>>

\* the light squares taken from the dark ones' list
lightSquares_Dark == <<0, 2, 4, 6>>

lightSquares == <<1, 3, 5, 7>>

\* backRank.map((p, i) => p === '' ? i : -1).filter(i => i >= 0), from index i on
RECURSIVE EmptyFrom(_, _)
EmptyFrom(backRank, i) ==
  IF i > 7 THEN <<>>
  ELSE (IF backRank[i] = <<>> THEN <<i>> ELSE <<>>) \o EmptyFrom(backRank, i + 1)

EmptySlots(backRank) == EmptyFrom(backRank, 0)

\* list[Math.floor(Math.random() * list.length)] with the roll r
Pick(list, r) == list[r + 1]

\* what Math.floor(Math.random() * n) may be
Rolls(n) == 0..(n - 1)

\* backRank[i] = piece
Put(backRank, i, piece) == [backRank EXCEPT ![i] = <<piece>>]

\* str.toUpperCase() of one character
UpperChar(ch) ==
  CASE ch = "k" -> "K" [] ch = "q" -> "Q" [] ch = "r" -> "R"
    [] ch = "b" -> "B" [] ch = "n" -> "N" [] ch = "p" -> "P"
    [] OTHER -> ch

toUpperCase(str) == [i \in 1..Len(str) |-> UpperChar(str[i])]

\* backRank.join('')
Join(backRank) ==
  backRank[0] \o backRank[1] \o backRank[2] \o backRank[3]
    \o backRank[4] \o backRank[5] \o backRank[6] \o backRank[7]

\* the back rank after the bishops, the queen and the knights are placed and
\* the last three empty squares filled with r, k, r
BackRank(r) ==
  LET b1 == Put(NoRank, Pick(darkSquares, r[1]), "b")
      b2 == Put(b1, Pick(lightSquares, r[2]), "b")
      b3 == Put(b2, Pick(EmptySlots(b2), r[3]), "q")
      b4 == Put(b3, Pick(EmptySlots(b3), r[4]), "n")
      b5 == Put(b4, Pick(EmptySlots(b4), r[5]), "n")
      last3 == EmptySlots(b5)
  IN IF Len(last3) = 3
     THEN Put(Put(Put(b5, last3[1], "r"), last3[2], "k"), last3[3], "r")
     ELSE b5

Pawns == <<"p", "p", "p", "p", "p", "p", "p", "p">>

\* random960Position() when its random choices come out as r
random960Position(r) ==
  Join(BackRank(r)) \o <<"/">> \o Pawns
    \o <<"/", "8", "/", "8", "/", "8", "/", "8", "/">> \o toUpperCase(Pawns)
    \o <<"/">> \o toUpperCase(Join(BackRank(r)))
    \o <<" ", "w", " ", "K", "Q", "k", "q", " ", "-", " ", "0", " ", "1">>

\* the outcomes of the five random choices
RollSets ==
  {<<a, b, c, d, e>> : a \in Rolls(Len(darkSquares)), b \in Rolls(Len(lightSquares)),
                       c \in Rolls(6), d \in Rolls(5), e \in Rolls(4)}

R960Init ==
  /\ rolls \in RollSets
  /\ fen960 = Null
  /\ PageInit
  /\ EvalIdle
  /\ LibNew
  /\ BoardNew
  /\ DepthIdle

Random960 ==
  /\ fen960 = Null
  /\ fen960' = Some(random960Position(rolls))
  /\ UNCHANGED rolls

R960Next == Random960 /\ UNCHANGED <<evalVars, pageVars, libVars, boardVars, depthVars, variant>>

R960Spec == R960Init /\ [][R960Next]_vars

----------------------------------------------------------------------------
(* BoardSpec: the ChessBoard component on the page.  handleMove is reached   *)
(* through the board's clicks only; the engine script has not loaded, so    *)
(* the bot moves by the fallback.                                            *)

\* the square of a square name
SquareOf(name) == CHOOSE sq \in Squares : SqName(sq) = name

\* getPiece(square), on the board's new Chess(position)
getPiece(g, square) == g.board[SquareOf(square)]

\* the `to` of every legal move, whatever its square
getLegalMoves_AnyFrom(legal, square) == {SqName(m.to) : m \in legal}

\* getLegalMoves(square): the `to` of the legal moves from the square
getLegalMoves(legal, square) ==
  LET from == {m \in legal : SqName(m.from) = square}
  IN {SqName(m.to) : m \in from}

\* isMyPiece, for a piece that is there
isMyPiece(piece) ==
  \/ orientation = "white" /\ ColorOf(piece) = "w"
  \/ orientation = "black" /\ ColorOf(piece) = "b"

\* the tail of handleSquareClick: select the square if it holds a piece of
\* the orientation's colour, else deselect
SelectOrDeselect(g, legal, square) ==
  IF getPiece(g, square) # Empty /\ isMyPiece(getPiece(g, square))
  THEN /\ selectedSquare' = Some(square)
       /\ possibleMoves' = getLegalMoves(legal, square)
  ELSE /\ selectedSquare' = Null
       /\ possibleMoves' = {}

\* handleSquareClick(square) in a game of fewer than `limit` plies
ClickSquareWithin(square, limit) ==
  \E g \in {Chess(Fen(game))} :
    \E legal \in {LegalMoves(g)} :
      /\ Settled
      /\ ~showResignMenu
      /\ UNCHANGED boardPosition
      /\ IF selectedSquare # Null /\ square \in getLegalMoves(legal, selectedSquare[1])
         THEN /\ onMoveCall' = Some([from |-> selectedSquare[1], to |-> square,
                                     promotion |-> "q"])
              /\ \E success \in BOOLEAN :
                   /\ HandleMoveOn(g, legal, selectedSquare[1], square, "q", success)
                   /\ success => Plies(g) < limit
                   /\ IF success
                      THEN /\ selectedSquare' = Null
                           /\ possibleMoves' = {}
                      ELSE SelectOrDeselect(g, legal, square)
         ELSE /\ onMoveCall' = Null
              /\ posted' = <<>>
              /\ UNCHANGED <<reactVars, engineVars, timers, fx>>
              /\ SelectOrDeselect(g, legal, square)

ClickSquare(square) == ClickSquareWithin(square, MaxPlies)

\* the effects of one render, the board's reset effect on [position] among
\* them
BoardRunEffects ==
  /\ RunEffects
  /\ boardPosition' = Some(Fen(game))
  /\ IF boardPosition # Some(Fen(game))
     THEN /\ selectedSquare' = Null
          /\ possibleMoves' = {}
     ELSE UNCHANGED <<selectedSquare, possibleMoves>>
  /\ onMoveCall' = Null

\* a step of the page in which the board keeps its state
BoardKept ==
  /\ onMoveCall' = Null
  /\ UNCHANGED <<selectedSquare, possibleMoves, boardPosition>>

offBoard == <<evalVars, libVars, r960Vars, depthVars, variant>>

BoardNext ==
  \/ \E square \in SquareNames : ClickSquare(square) /\ UNCHANGED offBoard
  \/ BoardRunEffects /\ UNCHANGED offBoard
  \/ FlipBoard /\ BoardKept /\ UNCHANGED offBoard
  \/ ClickNewGame /\ BoardKept /\ UNCHANGED offBoard
  \/ ClickBot /\ BoardKept /\ UNCHANGED offBoard
  \/ OfferDraw /\ BoardKept /\ UNCHANGED offBoard
  \/ \E i \in 1..MaxInFlight : BotTimer(i) /\ BoardKept /\ UNCHANGED offBoard

BoardSpec == Init /\ [][BoardNext]_vars

----------------------------------------------------------------------------
(* DepthSpec: the depth the bot trigger computes, for two bots *)

\* the largest skill of BOTS, Stockfish's largest Skill Level
MaxSkill == 20

\* the two bots
DepthInit ==
  /\ skills \in (0..MaxSkill) \X (0..MaxSkill)
  /\ depths = Null
  /\ PageInit
  /\ EvalIdle
  /\ LibNew
  /\ R960Idle
  /\ BoardNew

\* the timer callback computes Math.floor(depth) for each of the two
ComputeDepths ==
  /\ depths = Null
  /\ depths' = Some(<<SearchDepth(skills[1]), SearchDepth(skills[2])>>)
  /\ UNCHANGED skills

DepthNext ==
  ComputeDepths /\ UNCHANGED <<evalVars, pageVars, libVars, r960Vars, boardVars, variant>>

DepthSpec == DepthInit /\ [][DepthNext]_vars

----------------------------------------------------------------------------
(* VariantSpec: the page with its variant buttons, two players at the board *)

Variants == {"chess", "960"}

offVariant == <<evalVars, libVars, r960Vars, boardVars, depthVars>>

VariantNext ==
  \/ \E v \in Variants : ClickVariant(v) /\ UNCHANGED offVariant
  \/ ClickNewGame /\ UNCHANGED offPage
  \/ AnyHandleMove /\ UNCHANGED offPage
  \/ FlipBoard /\ UNCHANGED offPage
  \/ OfferDraw /\ UNCHANGED offPage
  \/ RunEffects /\ UNCHANGED offPage

VariantSpec == Init /\ [][VariantNext]_vars

----------------------------------------------------------------------------
(* The material count the claims state *)

\* occurrences of ch in s
Count(s, ch) == Cardinality({i \in 1..Len(s) : s[i] = ch})

\* Pawn=1, Knight=3, Bishop=3.25, Rook=5, Queen=9, King=0: white minus black,
\* over the piece-placement field only
MaterialOf(fen) ==
  LET f == FirstField(fen)
      D(up, lo) == Count(f, up) - Count(f, lo)
  IN 100 * D("P", "p") + 300 * D("N", "n") + 325 * D("B", "b")
     + 500 * D("R", "r") + 900 * D("Q", "q") + 0 * D("K", "k")

----------------------------------------------------------------------------
(* C1 *)

\* C1: in the commands one operation posts to the worker, every 'position'
\* command comes after a 'stop' command of the same operation.
C1_StopBeforePosition ==
  \A i \in 1..Len(posted) :
    posted[i].cmd = "position" => \E j \in 1..(i - 1) : posted[j].cmd = "stop"

----------------------------------------------------------------------------
(* C2 *)

\* C2: at most one bot request, a timer that is set or a search the worker
\* has not answered, is in flight at any time.
C2_SingleFlight == Len(timers) + Len(searches) <= 1

\* a search is in flight in a game that Flip Board and the draw offer have
\* touched meanwhile
C2_Witness ==
  /\ Len(searches) = 1
  /\ botThinking
  /\ orientation = "black"
  /\ gameStatus = "draw"

----------------------------------------------------------------------------
(* C3 *)

\* a reply that will call handleBotMove is still to come: the timer is set,
\* or a search is out and its handler installed
ReplyPending == timers # <<>> \/ (searches # <<>> /\ messageHandler # Null)

\* C3: whenever botThinking is true, the request that set it is still to be
\* answered by a handled move or a failure, so that botThinking becomes false
\* again.
C3_BotThinkingClears == botThinking => ReplyPending

----------------------------------------------------------------------------
(* C4 *)

\* call k has been made and its promise is pending
Pending(k) == k <= Len(promises) /\ ~promises[k].done

\* call k has been made and its promise is resolved
Resolved(k) == k <= Len(promises) /\ promises[k].done

\* C4: the promise of every findBestMove call eventually resolves; it
\* resolves with null in the call itself when there is no worker, with the
\* move when handleMessage passes a bestmove other than '(none)' to its
\* callback, with null when its safety timer fires first; it never holds
\* '(none)', and once resolved it keeps its value.
C4_PromiseResolves ==
  /\ [](\A k \in 1..Len(promises) : promises[k].value # Some(NoneMove))
  /\ [][ \A k \in 1..Len(promises') :
           /\ Resolved(k) => promises'[k].done /\ promises'[k].value = promises[k].value
           /\ (k > Len(promises) /\ ~libWorker)
                => promises'[k].done /\ promises'[k].value = Null
           /\ ( /\ Pending(k)
                /\ libMsg' # Null
                /\ libMsg' # Some(NoneMove)
                /\ libOnMessage = "handleMessage"
                /\ libOnBestMove = Some(k) )
                => promises'[k].done /\ promises'[k].value = libMsg'
           /\ (Pending(k) /\ promises[k].timer /\ ~promises'[k].timer)
                => promises'[k].done /\ promises'[k].value = Null ]_vars
  /\ \A k \in 1..MaxCalls : Pending(k) ~> Resolved(k)

\* of two calls made with a worker, the first resolved with a move and the
\* second with null by its timer
C4_Witness ==
  /\ Len(promises) = 2
  /\ promises[1].done /\ promises[1].value # Null
  /\ promises[2].prev # Null
  /\ promises[2].done /\ promises[2].value = Null
  /\ ~promises[2].timer

----------------------------------------------------------------------------
(* C5 *)

\* C5: a failed init and destroy leave the wrapper without a worker, and
\* without a worker analyze(fen, depth) posts no command and hands
\* onAnalysis one result: the material evaluation of fen as score, mate and
\* bestMove null, pv empty and the requested depth.
C5_AnalyzeFallback ==
  /\ [](libInitResult = Some(FALSE) => ~libWorker)
  /\ [][ /\ LibDestroy => ~libWorker'
         /\ \A fen \in LibFens, depth \in LibDepths :
              (~libWorker /\ LibAnalyze(fen, depth))
                => /\ libPosted' = <<>>
                   /\ libOnAnalysis
                        => libCalls' = << [depth |-> depth,
                                          score |-> Some(MaterialOf(fen)),
                                          mate |-> Null, bestMove |-> Null,
                                          pv |-> <<>>] >> ]_vars

\* init timed out on a worker that is still booting, and analyze of the
\* position with the bishop handed its fallback result to onAnalysis
C5_Witness ==
  /\ ~libWorker
  /\ libEngine = "booting"
  /\ libInitResult = Some(FALSE)
  /\ libPosted = <<>>
  /\ libCalls = << [depth |-> 1, score |-> Some(-325), mate |-> Null,
                    bestMove |-> Null, pv |-> <<>>] >>

----------------------------------------------------------------------------
(* C6 *)

\* timers without its i-th element
WithoutTimer(i) == SubSeq(timers, 1, i - 1) \o SubSeq(timers, i + 1, Len(timers))

\* what the fallback is to do on the current position
C6_FallbackDone ==
  LET now      == Chess(Fen(game))
      legal    == LegalMoves(now)
      captures == {m \in legal : IsCapture(now, m)}
  IN /\ botThinking' = FALSE
     /\ IF legal # {}
        THEN \E m \in legal :
               /\ game' = MakeMove(now, m)
               /\ captures # {} => m \in captures
        ELSE UNCHANGED <<game, lastMove, moveList, gameStatus, clockRunning>>

\* C6: when the timer of a bot request fires in a bot game that is being
\* played, with the bot to move and the engine not ready, a legal move of the
\* current position, a capture if there is one, is applied to the current
\* position and botThinking is cleared; when the bot has no legal move only
\* botThinking is cleared.
C6_FallbackMove ==
  [][ \A i \in 1..Len(timers) :
        ( /\ Settled
          /\ vsBot
          /\ gameStatus = "playing"
          /\ currentTurn = botColor
          /\ ~sfReady
          /\ timers' = WithoutTimer(i) )
          => C6_FallbackDone ]_vars

----------------------------------------------------------------------------
(* C8 *)

\* what handleMove(from, to, promotion) returning r is to have done
C8_Handled(from, to, r) ==
  LET now  == Chess(Fen(game))
      fits == {m \in LegalMoves(now) : SqName(m.from) = from /\ SqName(m.to) = to}
  IN IF gameStatus # "playing" \/ fits = {}
     THEN /\ r = FALSE
          /\ UNCHANGED <<game, lastMove, moveList, clockRunning>>
     ELSE /\ r = TRUE
          /\ \E m \in fits :
               /\ game' = MakeMove(now, m)
               /\ moveList' = Append(moveList, San(now, m))
          /\ lastMove' = Some([from |-> from, to |-> to])
          /\ clockRunning' = TRUE

----------------------------------------------------------------------------
(* C9 *)

\* C9: when the game-over check runs on a checkmate position it sets
\* gameStatus to 'checkmate' and stops the clock, the check is pending after
\* every step that leaves a new game object in checkmate, and a clock stopped
\* in status 'checkmate' stays stopped.
C9_CheckmateStopsClock ==
  [][ /\ (~Settled /\ fx.gameOver /\ isCheckmate(game))
           => (gameStatus' = "checkmate" /\ ~clockRunning')
      /\ (game' # game /\ isCheckmate(game')) => fx'.gameOver
      /\ (gameStatus = "checkmate" /\ ~clockRunning) => ~clockRunning' ]_vars

\* the effect has run on a checkmate the move of which had started the clock
C9_Witness ==
  /\ Settled
  /\ isCheckmate(game)
  /\ gameStatus = "checkmate"
  /\ ~clockRunning
  /\ moveList # <<>>

----------------------------------------------------------------------------
(* C10 *)

\* C10: when the game-over check runs on a stalemate position, gameStatus
\* becomes 'stalemate'.
C10_StalemateStatus ==
  [][ (~Settled /\ fx.gameOver /\ isStalemate(game))
        => gameStatus' = "stalemate" ]_vars

----------------------------------------------------------------------------
(* C11 *)

\* the positions of the game that starts in g and goes on with the SAN texts
RECURSIVE Replayed(_, _)
Replayed(g, sans) ==
  LET key   == PositionKey(g.board, g.turn)
      found == IF sans = <<>> THEN {} ELSE MatchString(g, Head(sans))
  IN IF found = {} THEN <<key>>
     ELSE <<key>> \o Replayed(MakeMove(g, CHOOSE m \in found : TRUE), Tail(sans))

\* how many times the game of moveList has been in its present position
Occurrences ==
  LET seen == Replayed(Chess(DEFAULT_POSITION), moveList)
  IN Cardinality({i \in 1..Len(seen) : seen[i] = PositionKey(game.board, game.turn)})

\* C11: once the moves played have brought the game to the same position
\* (placement and side to move; the board has no castling or en passant) for
\* the third time and the effects have run, gameStatus is 'draw'.
C11_RepetitionDraw == (Settled /\ Occurrences >= 3) => gameStatus = "draw"

----------------------------------------------------------------------------
(* C12 *)

\* the text of s up to its first sep, and the text after it
UpTo(s, sep) ==
  IF \E i \in 1..Len(s) : s[i] = sep
  THEN SubSeq(s, 1, (CHOOSE i \in 1..Len(s) :
                       s[i] = sep /\ \A j \in 1..(i - 1) : s[j] # sep) - 1)
  ELSE s

After(s, sep) == SubSeq(s, Len(UpTo(s, sep)) + 2, Len(s))

\* the n-th field of s between the separators sep
RECURSIVE Field(_, _, _)
Field(s, sep, n) == IF n = 1 THEN UpTo(s, sep) ELSE Field(After(s, sep), sep, n - 1)

UpperPairs ==
  {<<"k", "K">>, <<"q", "Q">>, <<"r", "R">>, <<"b", "B">>, <<"n", "N">>}

\* rank is a Chess960 back rank of Black
IsBackRank960(rank) ==
  LET at(ch) == {i \in 1..Len(rank) : rank[i] = ch}
  IN /\ Len(rank) = 8
     /\ Cardinality(at("k")) = 1
     /\ Cardinality(at("q")) = 1
     /\ Cardinality(at("r")) = 2
     /\ Cardinality(at("b")) = 2
     /\ Cardinality(at("n")) = 2
     /\ \A k \in at("k") : (\E r \in at("r") : r < k) /\ (\E r \in at("r") : r > k)
     /\ \A i, j \in at("b") : i # j => (i % 2) # (j % 2)

\* C12: whatever its random choices, the FEN random960Position returns has a
\* black back rank with one king, one queen, two rooks, two bishops and two
\* knights on its eight squares, the king between the rooks, the bishops on
\* squares of opposite colour, and a white back rank that is its upper-case
\* copy.
C12_Chess960Rank ==
  fen960 # Null =>
    LET placement == UpTo(fen960[1], " ")
        black     == Field(placement, "/", 1)
        white     == Field(placement, "/", 8)
    IN /\ IsBackRank960(black)
       /\ Len(white) = Len(black)
       /\ \A i \in 1..Len(black) : <<black[i], white[i]>> \in UpperPairs

\* the call that put the bishops on g8 and h8 and the king between rooks on
\* the a- and c-files has returned
C12_Witness ==
  /\ fen960 # Null
  /\ Field(fen960[1], "/", 1) = <<"r", "k", "r", "n", "n", "q", "b", "b">>

----------------------------------------------------------------------------
(* C13 *)

\* C13: in every position, handleMove called without a promotion letter for
\* a pawn move to the last rank finds the promotion to a queen and no other;
\* every onMove call of the board passes 'q'; and after a click that moved a
\* pawn to the last rank a queen of the mover's colour stands on the square.
C13_QueenPromotion ==
  /\ [](\A g \in {Chess(Fen(game))} : \A legal \in {LegalMoves(g)} :
          \A m \in legal :
            m.promo # NoPromo =>
              MatchObject(legal, SqName(m.from), SqName(m.to), PromotionOrQueen(NoPromo))
                = {[from |-> m.from, to |-> m.to, promo |-> "Q"]})
  /\ [][ \A square \in SquareNames :
           ClickSquare(square) =>
             /\ onMoveCall' # Null => onMoveCall'[1].promotion = "q"
             /\ (game' # game
                 /\ IsPromotion(game.board, SquareOf(selectedSquare[1]), SquareOf(square)))
                  => game'.board[SquareOf(square)] = PieceOf("Q", game.turn) ]_vars

\* the click on b3 with the pawn of b2 selected made a queen
C13_Witness ==
  /\ onMoveCall = Some([from |-> <<"b", "2">>, to |-> <<"b", "3">>, promotion |-> "q"])
  /\ game.board[<<2, 3>>] = "Q"
  /\ game.board[<<2, 2>>] = Empty
  /\ selectedSquare = Null

----------------------------------------------------------------------------
(* C14 *)

\* the squares a piece on the square `from` may legally go to in the current
\* position
Destinations(from) ==
  LET now == Chess(Fen(game))
  IN {to \in SquareNames :
        \E m \in LegalMoves(now) : SqName(m.from) = from /\ SqName(m.to) = to}

\* the reset effect has run for the position on the board
BoardSynced == boardPosition = Some(Fen(game))

\* C14: once the effects of a position have run, possibleMoves is the set of
\* legal destinations of selectedSquare in that position, empty without a
\* selection; a change of position leaves the reset pending, and the reset
\* and a successful onMove clear the selection; onMove is called only with
\* the selected square and one of its legal destinations.
C14_BoardSelection ==
  /\ [](BoardSynced =>
          possibleMoves = IF selectedSquare = Null THEN {}
                          ELSE Destinations(selectedSquare[1]))
  /\ [][ /\ Fen(game') # Fen(game) => ~BoardSynced'
         /\ (~BoardSynced /\ BoardSynced')
              => (selectedSquare' = Null /\ possibleMoves' = {})
         /\ (onMoveCall' # Null /\ game' # game)
              => (selectedSquare' = Null /\ possibleMoves' = {})
         /\ onMoveCall' # Null
              => /\ selectedSquare = Some(onMoveCall'[1].from)
                 /\ onMoveCall'[1].to \in Destinations(onMoveCall'[1].from) ]_vars

\* the rook was selected with Black at the bottom: selected as White, then
\* Flip Board
C14_Witness ==
  /\ Settled
  /\ orientation = "black"
  /\ selectedSquare = Some(<<"b", "1">>)
  /\ possibleMoves = {<<"c", "1">>}

----------------------------------------------------------------------------
(* C15 *)

\* C15: the move a findBestMove call has resolved with is a move the engine
\* may answer a search of that call's own position with.
C15_OwnBestMove ==
  \A k \in 1..Len(promises) :
    (promises[k].done /\ promises[k].value # Null)
      => promises[k].value[1] \in EngineAnswers(promises[k].fen)

----------------------------------------------------------------------------
(* C16 *)

\* the step delivered a bot reply: a timer fired or a search was answered
BotReplied == Len(timers') < Len(timers) \/ Len(searches') < Len(searches)

\* C16: a bot reply that arrives in a new game in which no move has been
\* played yet either leaves game, lastMove and moveList alone or plays a
\* legal move of the new game's position.
C16_NoStaleReply ==
  [][ (BotReplied /\ moveList = <<>> /\ lastMove = Null)
        => \/ UNCHANGED <<game, lastMove, moveList>>
           \/ \E now \in {Chess(Fen(game))} : \E m \in LegalMoves(now) :
                /\ game' = MakeMove(now, m)
                /\ moveList' = <<San(now, m)>> ]_vars

----------------------------------------------------------------------------
(* C17 *)

\* the step was newGame
StartedNewGame ==
  /\ gameStatus' = "playing"
  /\ game' = Chess(DEFAULT_POSITION)
  /\ moveList' = <<>>
  /\ lastMove' = Null

\* C17: while gameStatus is not 'playing', every step but New Game leaves
\* game, lastMove and moveList alone.
C17_FrozenWhenOver ==
  [][ gameStatus # "playing"
        => (UNCHANGED <<game, lastMove, moveList>> \/ StartedNewGame) ]_vars

----------------------------------------------------------------------------
(* C18 *)

\* C18: in every settled state in which gameStatus is not 'playing' the
\* clock is stopped.
C18_ClockStoppedWhenOver == (Settled /\ gameStatus # "playing") => ~clockRunning

\* the game was drawn by offer after the clock had run
C18_Witness ==
  /\ Settled
  /\ gameStatus = "draw"
  /\ whiteTime < timeControl
  /\ ~clockRunning

----------------------------------------------------------------------------
(* C19 *)

\* the clock of the side to move
TimeToMove == IF game.turn = "w" THEN whiteTime ELSE blackTime

\* C19: both clocks stay within 0..timeControl; a step that changes a clock
\* either sets both to timeControl or takes exactly 1 from the clock of the
\* side to move, leaving the other, while the clock runs and the game is
\* being played; gameStatus becomes 'timeout' only in a step taken with the
\* clock running, the game being played and the side to move at 0; New Game
\* sets both clocks to timeControl.
C19_ClockInvariant ==
  /\ [](whiteTime \in 0..timeControl /\ blackTime \in 0..timeControl)
  /\ [][ /\ <<whiteTime, blackTime>>' # <<whiteTime, blackTime>>
              => \/ whiteTime' = timeControl /\ blackTime' = timeControl
                 \/ /\ clockRunning
                    /\ gameStatus = "playing"
                    /\ IF game.turn = "w"
                       THEN whiteTime' = whiteTime - 1 /\ blackTime' = blackTime
                       ELSE blackTime' = blackTime - 1 /\ whiteTime' = whiteTime
         /\ (gameStatus' = "timeout" /\ gameStatus # "timeout")
              => (clockRunning /\ gameStatus = "playing" /\ TimeToMove = 0)
         /\ (ClickNewGame \/ ClickBot \/ ClickRestart)
              => (whiteTime' = timeControl /\ blackTime' = timeControl) ]_vars

\* White's clock ran down to 0 and the next tick ended the game
C19_Witness ==
  /\ gameStatus = "timeout"
  /\ whiteTime = 0
  /\ blackTime = timeControl
  /\ ~clockRunning

----------------------------------------------------------------------------
(* C20 *)

\* the text that names the bot as the winner by resignation
BotWinsByResignation ==
  Some(<<IF botColor = "white" THEN "White" ELSE "Black", " wins - opponent resigned!">>)

\* C20: when the user resigns a bot game the winner text names the bot's
\* colour, whichever side is to move, and while the status stays 'resigned'
\* the text does not change.
C20_ResignerLoses ==
  [][ /\ (vsBot /\ Resign) => getWinnerText' = BotWinsByResignation
      /\ (gameStatus = "resigned" /\ gameStatus' = "resigned")
           => getWinnerText' = getWinnerText ]_vars

----------------------------------------------------------------------------
(* C21 *)

\* C21: whenever a move has been applied, lastMove.from and lastMove.to are
\* names of squares of the board; `from` is the square the move left empty
\* and `to` holds the piece of the side that moved.
C21_LastMoveSquares ==
  lastMove # Null =>
    /\ lastMove[1].from \in SquareNames
    /\ lastMove[1].to \in SquareNames
    /\ getPiece(game, lastMove[1].from) = Empty
    /\ getPiece(game, lastMove[1].to) # Empty
    /\ ColorOf(getPiece(game, lastMove[1].to)) = Other(game.turn)

----------------------------------------------------------------------------
(* C22 *)

\* the failure left the game alone and ended the thinking
Recovered == UNCHANGED <<game, lastMove, moveList>> /\ botThinking' = FALSE

\* the step applied a move that chess.move finds for the text on
\* closureGame, and ended the thinking
Applied(closureGame, move) ==
  \E m \in MatchString(Chess(Fen(closureGame)), move) :
    /\ game' = MakeMove(Chess(Fen(closureGame)), m)
    /\ Len(moveList') = Len(moveList) + 1
    /\ lastMove' # Null
    /\ botThinking' = FALSE

\* C22: when the fallback hands handleBotMove the empty text, game, lastMove
\* and moveList are unchanged and botThinking becomes false; when the worker
\* answers a search whose handler is installed, the step either applies a
\* move the text stands for on the handler's game, or leaves game, lastMove
\* and moveList unchanged and sets botThinking to false, or, for '(none)',
\* changes nothing: no text, legal or not, updates a part of them.
C22_FailureRecoverable ==
  [][ /\ \A i \in 1..Len(timers) :
           ( /\ timers' = WithoutTimer(i)
             /\ ~sfReady
             /\ findFallbackMove(timers[i].game) = {<<>>} ) => Recovered
      /\ ( /\ searches # <<>>
           /\ searches' = Tail(searches)
           /\ messageHandler # Null )
           => \/ \E move \in WorkerTexts(Head(searches)) \ {NoneMove} :
                   Applied(messageHandler[1].game, move)
              \/ Recovered
              \/ /\ NoneMove \in WorkerTexts(Head(searches))
                 /\ UNCHANGED <<game, lastMove, moveList, botThinking>> ]_vars

\* the engine's reply could not be applied: the bot is still to move on the
\* unchanged position, the thinking has ended and only the trigger effect
\* is due
C22_Witness ==
  /\ vsBot /\ sfReady /\ ~botThinking
  /\ gameStatus = "playing"
  /\ orientation = "white" /\ game.turn = "b"
  /\ LegalMoves(game) # {}
  /\ timers = <<>> /\ searches = <<>> /\ messageHandler = Null
  /\ fx = [gameOver |-> FALSE, analysis |-> FALSE, botMove |-> TRUE]

----------------------------------------------------------------------------
(* C23 *)

\* C23: of two bots the one with the higher skill is searched at least as
\* deep as the other.
C23_DepthMonotone ==
  (depths # Null /\ skills[1] < skills[2]) => depths[1][2] >= depths[1][1]

----------------------------------------------------------------------------
(* C24 *)

\* C24: a click on a variant button starts a game of the variant clicked: a
\* Chess960 position for 'Chess960', the standard position for 'Classic'.
C24_VariantStarts ==
  [][ \A v \in Variants :
        ClickVariant(v) => Fen(game') \in StartPositions(v) ]_vars

----------------------------------------------------------------------------
(* C25 *)

\* the step issued a bot request: the trigger effect set its timer
BotRequested == Len(timers') = Len(timers) + 1

\* C25: newGame(bot) makes the user White, and every bot request of a bot
\* game is issued with Black to move.
C25_BotPlaysBlack ==
  [][ /\ ClickBot => (vsBot' /\ orientation' = "white" /\ game'.turn = "w")
      /\ BotRequested => (vsBot /\ game.turn = "b") ]_vars

----------------------------------------------------------------------------
(* C7 *)

\* C7: every static evaluation the program computes from a FEN, by
\* fallbackEval or by simpleEval, is the signed material sum with the bishop
\* at 3.25.
C7_EvalIsMaterial ==
  /\ fbScore # Null => fbScore = Some(MaterialOf(evalFen))
  /\ seScore # Null => seScore = Some(MaterialOf(evalFen))

====
